---- MODULE Spec2Model ----
(***************************************************************************)
(* A model of scripts/repair_sessions.py: the repair of session log files  *)
(* (rollout-*.jsonl) from their backups (rollout-*.mixed.bak).             *)
(*                                                                         *)
(* Representation.                                                         *)
(*  - A path string is a sequence of one-character strings.                *)
(*  - An optional JSON value (a key that may be missing, Python's None) is *)
(*    a sequence of length 0 (missing) or 1 (present).                     *)
(*  - A line of a file is a record with a fixed set of fields.  kind tells *)
(*    what json.loads makes of the stripped text: "blank" (empty after     *)
(*    strip), "garbage" (json.loads raises), "nonobj" (a JSON value that   *)
(*    is not an object: a number, a list, ...) or "obj" (a JSON object).   *)
(*    For an object: type is obj["type"]; pshape says whether "payload" is *)
(*    missing, a mapping or another value ("scalar"); pcwd is              *)
(*    payload["cwd"]; mshape, mcwd, mid describe payload["meta"] the same  *)
(*    way; text stands for every other field of the record; ord is the     *)
(*    order in which the keys are written on the line (which json.loads    *)
(*    keeps and json.dumps(sort_keys=True) erases); sur says that a string *)
(*    of the record other than its type, cwd and id holds a lone surrogate *)
(*    (written "\ud800" on the line), which UTF-8 cannot encode.           *)
(*  - A file name is a sequence of one-character strings.                  *)
(*                                                                         *)
(* Alphabet.  The characters of the model's strings are the ASCII          *)
(* characters and "É"; LowerChar is str.lower on these.  File names hold no *)
(* "[" or "]" (the character classes of glob patterns) and no path         *)
(* separator; names are compared as on a case-sensitive file system, and   *)
(* patterns are read as pathlib of Python 3.11 reads them.  The order in   *)
(* which a directory lists its files is the file system's: any order, the  *)
(* same at every listing while the directory holds the same files.  The    *)
(* cwd, id and type of a record are strings without surrogates.            *)
(***************************************************************************)
EXTENDS Integers, Sequences, FiniteSets, TLC

VARIABLES
    root_exists,     \* args.root exists
    dry_run,         \* args.dry_run
    files,           \* the target files iter_jsonl_files yields, with their directory
    pc,              \* the position of main / process_jsonl
    idx,             \* index in files of the file being processed (0 before the loop)
    total,           \* main's total
    repaired,        \* main's repaired
    outcome,         \* per file: the state in which process_jsonl ended, or "Pending"
    exit_code,       \* the process's exit code; -1 while it runs
    printed,         \* the summary line was printed
    warned,          \* number of [warn] diagnostics written
    target_cwd_raw,  \* process_jsonl's local (optional path)
    target_cid,      \* process_jsonl's local (optional id)
    src_path,        \* process_jsonl's local: index of the chosen backup in the directory
    source_lines,    \* process_jsonl's local
    merged,          \* process_jsonl's local
    run,             \* number of the invocation of the tool (1 or 2)
    orig,            \* files as they were when this invocation started
    prev,            \* <<>> or <<[dry_run, outcome, orig, files]>> of the previous invocation
    call             \* a single call of one pure function: its arguments and result

vars == <<root_exists, dry_run, files, pc, idx, total, repaired, outcome, exit_code,
          printed, warned, target_cwd_raw, target_cid, src_path, source_lines,
          merged, run, orig, prev, call>>

-----------------------------------------------------------------------------
(* Bounds of the model *)

\* Number of chunks (a verbatim prefix marker or a single character) of a raw path
MaxChunks == 3
\* Number of lines of a backup given to the scanner alone
MaxScanLen == 3
\* Number of lines of a target file (single-file runs)
MaxTargetLen == 2
\* Number of lines of a backup file (single-file runs)
MaxBakLen == 3
\* Number of target files in a batch
NumFiles == 2

-----------------------------------------------------------------------------
(* Strings *)

RECURSIVE Replace(_)
\* str.replace("\\", "/")
Replace(s) ==
    IF s = <<>> THEN <<>>
    ELSE <<IF Head(s) = "\\" THEN "/" ELSE Head(s)>> \o Replace(Tail(s))

\* The cased characters of the alphabet and their lower-case forms
UpperChars ==
    <<"A", "B", "C", "D", "E", "F", "G", "H", "I", "J", "K", "L", "M", "N", "O",
      "P", "Q", "R", "S", "T", "U", "V", "W", "X", "Y", "Z", "É">>
LowerChars ==
    <<"a", "b", "c", "d", "e", "f", "g", "h", "i", "j", "k", "l", "m", "n", "o",
      "p", "q", "r", "s", "t", "u", "v", "w", "x", "y", "z", "é">>

\* str.lower() of one character
LowerChar(c) ==
    IF \E k \in 1..Len(UpperChars) : UpperChars[k] = c
    THEN LowerChars[CHOOSE k \in 1..Len(UpperChars) : UpperChars[k] = c]
    ELSE c

RECURSIVE Lower(_)
\* str.lower()
Lower(s) == IF s = <<>> THEN <<>> ELSE <<LowerChar(Head(s))>> \o Lower(Tail(s))

\* str.startswith
StartsWith(s, p) == Len(s) >= Len(p) /\ SubSeq(s, 1, Len(p)) = p

RECURSIVE RStrip(_)
\* str.rstrip("/")
RStrip(s) ==
    IF s = <<>> THEN <<>>
    ELSE IF s[Len(s)] = "/" THEN RStrip(SubSeq(s, 1, Len(s) - 1))
    ELSE s

\* The two prefixes of normalize_cwd's loop, in its order: "//?/" and "\\?\"
Prefixes == << <<"/", "/", "?", "/">>, <<"\\", "\\", "?", "\\">> >>

\* One iteration of the loop over the prefixes
StripPrefix(s, prefix) ==
    IF StartsWith(Lower(s), Lower(prefix))
    THEN SubSeq(s, Len(prefix) + 1, Len(s))
    ELSE s

normalize_cwd(raw) ==
    LET s0 == Replace(raw)
        s1 == StripPrefix(s0, Prefixes[1])
        s2 == StripPrefix(s1, Prefixes[2])
    IN  Lower(RStrip(s2))

-----------------------------------------------------------------------------
(* Lines and records *)

None == <<>>
Some(v) == <<v>>

\* Python truthiness of an optional string: present and not empty
TruthyPath(o) == o # None /\ o[1] # <<>>
TruthyId(o) == o # None /\ o[1] # ""

Line(kind, type, pshape, pcwd, mshape, mcwd, mid, text, ord) ==
    [kind |-> kind, type |-> type, pshape |-> pshape, pcwd |-> pcwd,
     mshape |-> mshape, mcwd |-> mcwd, mid |-> mid, text |-> text, ord |-> ord,
     sur |-> FALSE]

Blank == Line("blank", "", "absent", None, "absent", None, None, 0, 0)
Garbage == Line("garbage", "", "absent", None, "absent", None, None, 0, 0)
NonObj == Line("nonobj", "", "absent", None, "absent", None, None, 0, 0)

\* {"type": "session_meta", "payload": {"meta": {"cwd": cwd, "id": id}}}
SessionMeta(cwd, id) ==
    Line("obj", "session_meta", "map", None, "map", cwd, id, 0, 0)
\* {"type": "turn_context", "payload": {"cwd": cwd}}
TurnContext(cwd) ==
    Line("obj", "turn_context", "map", cwd, "absent", None, None, 0, 0)
\* {"type": "event", "payload": {"text": n}}, keys written in order ord
Event(n, ord) ==
    Line("obj", "event", "map", None, "absent", None, None, n, ord)

\* {"type": "event", "payload": {"text": n, "s": "\ud800"}}
SurrogateEvent(n) == [Event(n, 0) EXCEPT !.sur = TRUE]

\* json.loads succeeds on the line
Parses(l) == l.kind \in {"obj", "nonobj"}

\* json.dumps(obj, sort_keys=True): the key order is erased (a lone surrogate
\* is written as an escape, ensure_ascii being on)
CanonicalKey(obj) == [obj EXCEPT !.ord = 0]

\* json.dumps(obj, ensure_ascii=False) written to a UTF-8 file raises
\* UnicodeEncodeError
Unencodable(obj) == obj.sur

-----------------------------------------------------------------------------
(* extract_cwd_and_id_from_jsonl *)

\* What the function returns, and whether it wrote a [warn] diagnostic
Identity(cwd, cid, warn) == [cwd |-> cwd, cid |-> cid, warn |-> warn]

RECURSIVE extract_cwd_and_id_from_jsonl(_)
\* lines: the lines of the file at path.  json.loads raising on an unparseable
\* line, and .get raising AttributeError on a value that is no mapping, are both
\* caught by "except Exception", which ends the scan with (None, None).
extract_cwd_and_id_from_jsonl(lines) ==
    IF lines = <<>> THEN Identity(None, None, FALSE)
    ELSE LET obj == Head(lines) IN
         CASE obj.kind = "blank" -> extract_cwd_and_id_from_jsonl(Tail(lines))
           [] obj.kind = "garbage" -> Identity(None, None, TRUE)
           [] obj.kind = "nonobj" -> Identity(None, None, TRUE)
           [] OTHER ->
                IF obj.type = "session_meta"
                THEN IF obj.pshape = "scalar" THEN Identity(None, None, TRUE)
                     ELSE IF obj.pshape = "absent" \/ obj.mshape = "absent"
                          THEN Identity(None, None, FALSE)
                     ELSE IF obj.mshape = "scalar" THEN Identity(None, None, TRUE)
                     ELSE Identity(obj.mcwd, obj.mid, FALSE)
                ELSE extract_cwd_and_id_from_jsonl(Tail(lines))

-----------------------------------------------------------------------------
(* ts_prefix_from_name *)

\* Length of the timestamp YYYY-MM-DDThh-mm-ss
TsLen == 19

\* "rollout-"
Rollout == <<"r", "o", "l", "l", "o", "u", "t", "-">>

ts_prefix_from_name(name) ==
    IF ~StartsWith(name, Rollout) THEN None
    ELSE LET core == SubSeq(name, Len(Rollout) + 1, Len(name)) IN
         IF Len(core) >= TsLen THEN Some(SubSeq(core, 1, TsLen)) ELSE None

-----------------------------------------------------------------------------
(* update_cwd_and_id *)

\* The call raises (and changes nothing): obj.get on a value that is no
\* mapping, payload.get / payload[...] = / meta[...] = on one that is none.
UpdateRaises(obj) ==
    \/ obj.kind # "obj"
    \/ obj.type = "session_meta" /\ obj.pshape = "scalar"
    \/ obj.type = "session_meta" /\ obj.pshape = "map" /\ obj.mshape = "scalar"
    \/ obj.type = "turn_context" /\ obj.pshape = "scalar"

\* A variant with "else" for "elif typ == 'turn_context'": every record that is
\* no session_meta record gets payload.cwd
UpdateStampsEveryRecord(obj, new_cwd, new_cid) ==
    IF obj.type = "session_meta"
    THEN [obj EXCEPT !.pshape = "map", !.mshape = "map",
                     !.mcwd = Some(new_cwd), !.mid = Some(new_cid)]
    ELSE [obj EXCEPT !.pshape = "map", !.pcwd = Some(new_cwd)]

update_cwd_and_id(obj, new_cwd, new_cid) ==
    IF obj.type = "session_meta"
    THEN [obj EXCEPT !.pshape = "map", !.mshape = "map",
                     !.mcwd = Some(new_cwd), !.mid = Some(new_cid)]
    ELSE IF obj.type = "turn_context"
    THEN [obj EXCEPT !.pshape = "map", !.pcwd = Some(new_cwd)]
    ELSE obj

-----------------------------------------------------------------------------
(* collect_cwd_filtered_lines *)

\* Reading obj raises: obj.get, payload.get or meta.get on a value that is no mapping
ScanRaises(obj) ==
    \/ obj.kind = "nonobj"
    \/ obj.type = "session_meta" /\ obj.pshape = "scalar"
    \/ obj.type = "session_meta" /\ obj.pshape = "map" /\ obj.mshape = "scalar"
    \/ obj.type = "turn_context" /\ obj.pshape = "scalar"

\* new_cwd of one record
NewCwd(obj) ==
    IF obj.type = "session_meta"
    THEN IF obj.pshape = "map" /\ obj.mshape = "map" THEN obj.mcwd ELSE None
    ELSE IF obj.type = "turn_context"
    THEN IF obj.pshape = "map" THEN obj.pcwd ELSE None
    ELSE None

\* current_cwd after the record: "if new_cwd:" is Python truthiness
NextCwd(obj, current_cwd) ==
    IF TruthyPath(NewCwd(obj)) THEN Some(normalize_cwd(NewCwd(obj)[1]))
    ELSE current_cwd

\* "if current_cwd and current_cwd == target_cwd_norm"
Selected(current_cwd, target_cwd_norm) ==
    TruthyPath(current_cwd) /\ current_cwd[1] = target_cwd_norm

RECURSIVE ScanFrom(_, _, _, _)
\* The loop over the lines of the backup: rest are the lines not yet read
ScanFrom(rest, current_cwd, lines, target_cwd_norm) ==
    IF rest = <<>> THEN [raised |-> FALSE, lines |-> lines]
    ELSE LET obj == Head(rest) IN
         IF ~Parses(obj) THEN ScanFrom(Tail(rest), current_cwd, lines, target_cwd_norm)
         ELSE IF ScanRaises(obj) THEN [raised |-> TRUE, lines |-> <<>>]
         ELSE LET cur == NextCwd(obj, current_cwd) IN
              ScanFrom(Tail(rest), cur,
                       IF Selected(cur, target_cwd_norm) THEN Append(lines, obj) ELSE lines,
                       target_cwd_norm)

\* src: the lines of the file at src_path
collect_cwd_filtered_lines(src, target_cwd_norm) ==
    ScanFrom(src, None, <<>>, target_cwd_norm)

-----------------------------------------------------------------------------
(* dedup_preserve_order *)

RECURSIVE DedupFrom(_, _, _)
DedupFrom(objs, seen, out) ==
    IF objs = <<>> THEN out
    ELSE LET obj == Head(objs)
             key == CanonicalKey(obj)
         IN  IF key \in seen THEN DedupFrom(Tail(objs), seen, out)
             ELSE DedupFrom(Tail(objs), seen \cup {key}, Append(out, obj))

RECURSIVE DedupByTextFrom(_, _, _)
DedupByTextFrom(objs, seen, out) ==
    IF objs = <<>> THEN out
    ELSE IF Head(objs) \in seen THEN DedupByTextFrom(Tail(objs), seen, out)
    ELSE DedupByTextFrom(Tail(objs), seen \cup {Head(objs)}, Append(out, Head(objs)))

\* A variant whose key is json.dumps(obj) without sort_keys
DedupByText(objs) == DedupByTextFrom(objs, {}, <<>>)

dedup_preserve_order(objs) == DedupFrom(objs, {}, <<>>)

-----------------------------------------------------------------------------
(* The files on disk *)

\* A target file with its directory: name is the target's file name, jsonl its
\* lines, baks the other files of its directory in the order glob lists them,
\* each [name, lines].
File(name, jsonl, baks) == [name |-> name, jsonl |-> jsonl, baks |-> baks]
Bak(name, lines) == [name |-> name, lines |-> lines]

RECURSIVE SeqsUpTo(_, _)
\* The sequences over S of length at most n
SeqsUpTo(S, n) ==
    IF n = 0 THEN {<<>>}
    ELSE LET shorter == SeqsUpTo(S, n - 1) IN
         shorter \cup {Append(q, x) : q \in shorter, x \in S}

\* Raw cwd strings: "/A/", "\a", "/b"
CwdTarget == <<"/", "A", "/">>
CwdBackup == <<"\\", "a">>
CwdOther == <<"/", "b">>

\* Lines a target file is made of (single-file runs); its session_meta record
\* has a field more than the backup's, so the two differ after rehydration too
TargetLines ==
    {[SessionMeta(Some(CwdTarget), Some("T1")) EXCEPT !.text = 1],
     Event(1, 0), Event(1, 1), Garbage}
\* Lines a backup file is made of (single-file runs)
BakLines ==
    {SessionMeta(Some(CwdBackup), Some("OLD")), TurnContext(Some(CwdOther)),
     Event(1, 0), Event(2, 0), NonObj}

\* "2025-01-01T00-00-00" and "2025-01-01T00-00-01"
Stamp ==
    <<"2", "0", "2", "5", "-", "0", "1", "-", "0", "1", "T",
      "0", "0", "-", "0", "0", "-", "0", "0">>
OtherStamp == SubSeq(Stamp, 1, TsLen - 1) \o <<"1">>

\* ".jsonl" and ".mixed.bak"
JsonlExt == <<".", "j", "s", "o", "n", "l">>
BakExt == <<".", "m", "i", "x", "e", "d", ".", "b", "a", "k">>

\* Names of target files: "rollout-x.jsonl" (too short for a timestamp),
\* "rollout-2025-01-01T00-00-00-x.jsonl", and
\* "rollout-?025-01-01T00-00-00-x.jsonl", "rollout-**25-01-01T00-00-00-x.jsonl"
ShortName == Rollout \o <<"x">> \o JsonlExt
LongName == Rollout \o Stamp \o <<"-", "x">> \o JsonlExt
WildName == Rollout \o <<"?">> \o Tail(Stamp) \o <<"-", "x">> \o JsonlExt
StarStarName == Rollout \o <<"*", "*">> \o Tail(Tail(Stamp)) \o <<"-", "x">> \o JsonlExt

\* Names of backup files: "rollout-2025-01-01T00-00-00-x.mixed.bak", two
\* longer ones of the same length, one without "-" after the timestamp, and
\* one with another timestamp
BakName == Rollout \o Stamp \o <<"-", "x">> \o BakExt
LongBakName == Rollout \o Stamp \o <<"-", "x", "y">> \o BakExt
LongBakName2 == Rollout \o Stamp \o <<"-", "x", "z">> \o BakExt
NoDashBakName == Rollout \o Stamp \o BakExt
OtherBakName == Rollout \o OtherStamp \o <<"-", "x">> \o BakExt

\* The directory of a single-file run: no backup with the target's timestamp, or one
BakDir(lines) == <<Bak(BakName, lines)>>
NoBakDirs == {<<>>, <<Bak(OtherBakName, <<>>)>>}

\* A well-named target with any backup, an ill-named one with a backup of one line
SingleFiles ==
    LET targets == SeqsUpTo(TargetLines, MaxTargetLen) IN
    {File(LongName, t, d) :
        t \in targets,
        d \in NoBakDirs \cup {BakDir(b) : b \in SeqsUpTo(BakLines, MaxBakLen)}}
    \cup
    {File(ShortName, t, d) :
        t \in targets, d \in NoBakDirs \cup {BakDir(<<b>>) : b \in BakLines}}

GoodTarget == <<SessionMeta(Some(CwdTarget), Some("T1"))>>
GoodBak ==
    <<SessionMeta(Some(CwdBackup), Some("OLD")), Event(1, 0),
      TurnContext(Some(CwdOther)), Event(2, 0)>>

\* A directory with three backups of the target's timestamp, two of them with
\* the longest name, listed in any order
TieBaks ==
    {Bak(BakName, <<TurnContext(Some(CwdOther))>>), Bak(LongBakName, GoodBak),
     Bak(LongBakName2, <<>>)}
TieFiles ==
    {File(LongName, GoodTarget, d) :
        d \in {q \in SeqsUpTo(TieBaks, Cardinality(TieBaks)) :
                  \A b \in TieBaks : \E k \in 1..Len(q) : q[k] = b}}

\* The files of a batch
Scenarios ==
    { File(LongName, GoodTarget, <<Bak(BakName, GoodBak)>>),
      File(StarStarName, GoodTarget, <<Bak(BakName, GoodBak)>>),
      File(LongName, GoodTarget,
           <<Bak(BakName, <<SessionMeta(Some(CwdBackup), Some("OLD")), NonObj>>)>>),
      File(LongName, <<Blank, Event(1, 0)>>, <<Bak(BakName, GoodBak)>>),
      File(ShortName, GoodTarget, <<Bak(BakName, GoodBak)>>),
      File(LongName, GoodTarget,
           <<Bak(BakName, <<TurnContext(Some(CwdOther)), Event(2, 0)>>)>>),
      File(LongName, GoodTarget, <<>>),
      File(LongName, GoodTarget, <<Bak(NoDashBakName, GoodBak)>>),
      File(WildName, GoodTarget, <<Bak(BakName, GoodBak)>>),
      File(LongName, GoodTarget \o <<SurrogateEvent(3)>>, <<Bak(BakName, GoodBak)>>),
      File(LongName, GoodTarget \o <<Event(3, 0)>>,
           <<Bak(BakName, <<SessionMeta(Some(CwdBackup), Some("OLD")),
                            SurrogateEvent(1), Event(1, 0)>>)>>) }

BatchFiles == {fs \in SeqsUpTo(Scenarios, NumFiles) : Len(fs) # 1}

-----------------------------------------------------------------------------
(* process_jsonl and main, step by step *)

target_cwd_norm == normalize_cwd(target_cwd_raw[1])

RECURSIVE GlobFrom(_, _, _, _)
\* The glob pattern pat from position i on matches the name from position j
\* on: "*" stands for any characters, none included, "?" for any one
\* character, every other character for itself
GlobFrom(pat, i, name, j) ==
    IF i > Len(pat) THEN j > Len(name)
    ELSE IF pat[i] = "*"
    THEN \E k \in j..(Len(name) + 1) : GlobFrom(pat, i + 1, name, k)
    ELSE /\ j <= Len(name)
         /\ (pat[i] = "?" \/ pat[i] = name[j])
         /\ GlobFrom(pat, i + 1, name, j + 1)

\* f"rollout-{ts_prefix}-*.mixed.bak": the timestamp prefix is put into the
\* pattern as it is
GlobPattern(ts_prefix) == Rollout \o ts_prefix \o <<"-", "*">> \o BakExt

\* day_dir.glob(pattern) raises ValueError ("'**' can only be an entire path
\* component"): two "*" in a row in the pattern
GlobRaises(pat) == \E i \in 1..(Len(pat) - 1) : pat[i] = "*" /\ pat[i + 1] = "*"

\* day_dir.glob(...): the indices of the matching files of the directory
Candidates(f) ==
    LET pat == GlobPattern(ts_prefix_from_name(f.name)[1]) IN
    {i \in 1..Len(f.baks) : GlobFrom(pat, 1, f.baks[i].name, 1)}

\* candidates.sort(key=len(name), reverse=True); candidates[0].  The sort is
\* stable: among the longest names the first that glob listed stays first
\* (f.baks is in the order of the listing).
ChooseCandidate(f) ==
    LET c == Candidates(f)
        longest == {i \in c : \A j \in c : Len(f.baks[j].name) <= Len(f.baks[i].name)}
    IN  CHOOSE i \in longest : \A j \in longest : i <= j

\* The lines of the target that json.loads accepts ("existing")
RECURSIVE Existing(_)
Existing(lines) ==
    IF lines = <<>> THEN <<>>
    ELSE IF Parses(Head(lines)) THEN <<Head(lines)>> \o Existing(Tail(lines))
    ELSE Existing(Tail(lines))

RECURSIVE Rehydrate(_, _, _)
\* [update_cwd_and_id(obj, target_cwd_raw, target_cid) for obj in source_lines]
Rehydrate(objs, new_cwd, new_cid) ==
    IF objs = <<>> THEN <<>>
    ELSE <<update_cwd_and_id(Head(objs), new_cwd, new_cid)>>
         \o Rehydrate(Tail(objs), new_cwd, new_cid)

\* The locals of process_jsonl before and after a call
ClearLocals ==
    /\ target_cwd_raw' = None
    /\ target_cid' = None
    /\ src_path' = 0
    /\ source_lines' = <<>>
    /\ merged' = <<>>

\* process_jsonl returns ok to main's loop, having ended in state st
Return(st, ok) ==
    /\ outcome' = [outcome EXCEPT ![idx] = st]
    /\ repaired' = IF ok THEN repaired + 1 ELSE repaired
    /\ pc' = "loop"
    /\ ClearLocals

\* main: "if not root.exists(): return 1"
RootMissing ==
    /\ pc = "main" /\ ~root_exists
    /\ pc' = "exit"
    /\ exit_code' = 1
    /\ UNCHANGED <<root_exists, dry_run, files, idx, total, repaired, outcome, printed,
                   warned, target_cwd_raw, target_cid, src_path, source_lines, merged,
                   run, orig, prev, call>>

\* main: total = 0; repaired = 0; the loop starts
BeginBatch ==
    /\ pc = "main" /\ root_exists
    /\ pc' = "loop"
    /\ total' = 0 /\ repaired' = 0
    /\ UNCHANGED <<root_exists, dry_run, files, idx, outcome, exit_code, printed, warned,
                   target_cwd_raw, target_cid, src_path, source_lines, merged, run,
                   orig, prev, call>>

\* main: the loop takes the next file and calls process_jsonl
NextFile ==
    /\ pc = "loop" /\ idx < Len(files)
    /\ idx' = idx + 1
    /\ total' = total + 1
    /\ pc' = "extract"
    /\ UNCHANGED <<root_exists, dry_run, files, repaired, outcome, exit_code, printed,
                   warned, target_cwd_raw, target_cid, src_path, source_lines, merged,
                   run, orig, prev, call>>

\* main: the loop is over; print the summary; return 0
Summary ==
    /\ pc = "loop" /\ idx = Len(files)
    /\ printed' = TRUE
    /\ exit_code' = 0
    /\ pc' = "exit"
    /\ UNCHANGED <<root_exists, dry_run, files, idx, total, repaired, outcome, warned,
                   target_cwd_raw, target_cid, src_path, source_lines, merged, run,
                   orig, prev, call>>

\* process_jsonl, lines 127-130
ExtractIdentity ==
    /\ pc = "extract"
    /\ LET r == extract_cwd_and_id_from_jsonl(files[idx].jsonl) IN
       /\ warned' = IF r.warn THEN warned + 1 ELSE warned
       /\ IF ~TruthyPath(r.cwd) \/ ~TruthyId(r.cid)
          THEN Return("NoIdentity", FALSE)
          ELSE /\ target_cwd_raw' = r.cwd
               /\ target_cid' = r.cid
               /\ pc' = "timestamp"
               /\ UNCHANGED <<outcome, repaired, src_path, source_lines, merged>>
    /\ UNCHANGED <<root_exists, dry_run, files, idx, total, exit_code, printed, run,
                   orig, prev, call>>

\* process_jsonl, lines 132-134
Timestamp ==
    /\ pc = "timestamp"
    /\ IF ts_prefix_from_name(files[idx].name) = None
       THEN Return("NoTimestamp", FALSE)
       ELSE /\ pc' = "glob"
            /\ UNCHANGED <<outcome, repaired, target_cwd_raw, target_cid, src_path,
                           source_lines, merged>>
    /\ UNCHANGED <<root_exists, dry_run, files, idx, total, exit_code, printed, warned,
                   run, orig, prev, call>>

\* process_jsonl, lines 136-143.  The ValueError of glob is caught neither in
\* process_jsonl nor in main: the interpreter prints the traceback and exits
\* with code 1.
Candidate ==
    /\ pc = "glob"
    /\ IF GlobRaises(GlobPattern(ts_prefix_from_name(files[idx].name)[1]))
       THEN /\ outcome' = [outcome EXCEPT ![idx] = "Raised"]
            /\ exit_code' = 1
            /\ pc' = "exit"
            /\ UNCHANGED <<repaired, target_cwd_raw, target_cid, src_path, source_lines,
                           merged>>
       ELSE /\ exit_code' = exit_code
            /\ IF Candidates(files[idx]) = {}
               THEN Return("NoCandidate", FALSE)
               ELSE /\ src_path' = ChooseCandidate(files[idx])
                    /\ pc' = "scan"
                    /\ UNCHANGED <<outcome, repaired, target_cwd_raw, target_cid,
                                   source_lines, merged>>
    /\ UNCHANGED <<root_exists, dry_run, files, idx, total, printed, warned, run, orig,
                   prev, call>>

\* process_jsonl, lines 145-147.  An exception raised in
\* collect_cwd_filtered_lines is caught neither there nor in process_jsonl nor
\* in main: the interpreter prints the traceback and exits with code 1.
Scan ==
    /\ pc = "scan"
    /\ LET r == collect_cwd_filtered_lines(files[idx].baks[src_path].lines,
                                           target_cwd_norm) IN
       IF r.raised
       THEN /\ outcome' = [outcome EXCEPT ![idx] = "Raised"]
            /\ exit_code' = 1
            /\ pc' = "exit"
            /\ UNCHANGED <<repaired, target_cwd_raw, target_cid, src_path, source_lines,
                           merged>>
       ELSE /\ exit_code' = exit_code
            /\ IF r.lines = <<>>
               THEN Return("NoMatchingRecords", FALSE)
               ELSE /\ source_lines' = r.lines
                    /\ pc' = "rehydrate"
                    /\ UNCHANGED <<outcome, repaired, target_cwd_raw, target_cid,
                                   src_path, merged>>
    /\ UNCHANGED <<root_exists, dry_run, files, idx, total, printed, warned, run, orig,
                   prev, call>>

\* A variant that merges the backup's records as they are
RehydrateSkipped ==
    /\ pc = "rehydrate"
    /\ pc' = "merge"
    /\ UNCHANGED <<root_exists, dry_run, files, idx, total, repaired, outcome, exit_code,
                   printed, warned, target_cwd_raw, target_cid, src_path, source_lines,
                   merged, run, orig, prev, call>>

\* process_jsonl, lines 149-152
RehydrateLines ==
    /\ pc = "rehydrate"
    /\ source_lines' = Rehydrate(source_lines, target_cwd_raw[1], target_cid[1])
    /\ pc' = "merge"
    /\ UNCHANGED <<root_exists, dry_run, files, idx, total, repaired, outcome, exit_code,
                   printed, warned, target_cwd_raw, target_cid, src_path, merged, run,
                   orig, prev, call>>

\* A variant that writes the backup's records alone
MergeDropsExisting ==
    /\ pc = "merge"
    /\ merged' = dedup_preserve_order(source_lines)
    /\ pc' = "write"
    /\ UNCHANGED <<root_exists, dry_run, files, idx, total, repaired, outcome, exit_code,
                   printed, warned, target_cwd_raw, target_cid, src_path, source_lines,
                   run, orig, prev, call>>

\* process_jsonl, lines 154-166
Merge ==
    /\ pc = "merge"
    /\ merged' = dedup_preserve_order(source_lines \o Existing(files[idx].jsonl))
    /\ pc' = "write"
    /\ UNCHANGED <<root_exists, dry_run, files, idx, total, repaired, outcome, exit_code,
                   printed, warned, target_cwd_raw, target_cid, src_path, source_lines,
                   run, orig, prev, call>>

\* Position of the first record of objs that cannot be encoded, 0 if there is none
FirstUnencodable(objs) ==
    IF \A k \in 1..Len(objs) : ~Unencodable(objs[k]) THEN 0
    ELSE CHOOSE k \in 1..Len(objs) :
             Unencodable(objs[k]) /\ \A j \in 1..(k - 1) : ~Unencodable(objs[j])

\* process_jsonl, lines 168-175: with dry_run, return True.  Otherwise open the
\* target for writing, which empties it, and write one line
\* json.dumps(obj, ensure_ascii=False) per record of merged, then return True;
\* reading a written line back gives the record again, keys in the same order.
\* A record that cannot be encoded raises UnicodeEncodeError at its write: the
\* lines written before it are flushed when the file is closed, and the
\* exception is caught neither in process_jsonl nor in main, so the
\* interpreter prints the traceback and exits with code 1.
Write ==
    /\ pc = "write"
    /\ LET k == FirstUnencodable(merged) IN
       IF dry_run
       THEN /\ files' = files
            /\ exit_code' = exit_code
            /\ Return("Repaired", TRUE)
       ELSE IF k = 0
       THEN /\ files' = [files EXCEPT ![idx].jsonl = merged]
            /\ exit_code' = exit_code
            /\ Return("Repaired", TRUE)
       ELSE /\ files' = [files EXCEPT ![idx].jsonl = SubSeq(merged, 1, k - 1)]
            /\ outcome' = [outcome EXCEPT ![idx] = "Raised"]
            /\ exit_code' = 1
            /\ pc' = "exit"
            /\ UNCHANGED <<repaired, target_cwd_raw, target_cid, src_path, source_lines,
                           merged>>
    /\ UNCHANGED <<root_exists, dry_run, idx, total, printed, warned, run, orig, prev,
                   call>>

\* The tool has exited and is started a second time on the same directory tree
Rerun ==
    /\ pc = "exit" /\ prev = <<>>
    /\ run' = run + 1
    /\ prev' = <<[dry_run |-> dry_run, outcome |-> outcome, orig |-> orig,
                  files |-> files]>>
    /\ orig' = files
    /\ dry_run' \in BOOLEAN
    /\ pc' = "main"
    /\ idx' = 0 /\ total' = 0 /\ repaired' = 0
    /\ outcome' = [i \in 1..Len(files) |-> "Pending"]
    /\ exit_code' = -1
    /\ printed' = FALSE
    /\ warned' = 0
    /\ UNCHANGED <<root_exists, files, target_cwd_raw, target_cid, src_path,
                   source_lines, merged, call>>

NoCall == [fn |-> "none"]

Init ==
    /\ root_exists \in BOOLEAN
    /\ dry_run \in BOOLEAN
    /\ files \in IF root_exists
                 THEN BatchFiles \cup {<<f>> : f \in SingleFiles \cup TieFiles}
                 ELSE {<<>>}
    /\ pc = "main"
    /\ idx = 0 /\ total = 0 /\ repaired = 0
    /\ outcome = [i \in 1..Len(files) |-> "Pending"]
    /\ exit_code = -1
    /\ printed = FALSE
    /\ warned = 0
    /\ target_cwd_raw = None /\ target_cid = None
    /\ src_path = 0
    /\ source_lines = <<>> /\ merged = <<>>
    /\ run = 1
    /\ orig = files
    /\ prev = <<>>
    /\ call = NoCall

Next ==
    \/ RootMissing
    \/ BeginBatch
    \/ NextFile
    \/ Summary
    \/ ExtractIdentity
    \/ Timestamp
    \/ Candidate
    \/ Scan
    \/ RehydrateLines
    \/ Merge
    \/ Write
    \/ Rerun

Spec == Init /\ [][Next]_vars

-----------------------------------------------------------------------------
(* Single calls of the pure functions *)

\* The program is not running
ProgramIdle ==
    /\ root_exists = TRUE /\ dry_run = FALSE
    /\ files = <<>> /\ orig = <<>> /\ prev = <<>>
    /\ pc = "idle"
    /\ idx = 0 /\ total = 0 /\ repaired = 0
    /\ outcome = <<>>
    /\ exit_code = -1
    /\ printed = FALSE
    /\ warned = 0
    /\ target_cwd_raw = None /\ target_cid = None
    /\ src_path = 0
    /\ source_lines = <<>> /\ merged = <<>>
    /\ run = 1

ProgramVars ==
    <<root_exists, dry_run, files, pc, idx, total, repaired, outcome, exit_code,
      printed, warned, target_cwd_raw, target_cid, src_path, source_lines, merged,
      run, orig, prev>>

RECURSIVE Flatten(_)
Flatten(chunks) ==
    IF chunks = <<>> THEN <<>> ELSE Head(chunks) \o Flatten(Tail(chunks))

\* Raw path strings: up to MaxChunks pieces, each a prefix marker or one character
\* (a separator, "?", a lower-case letter, upper-case ones with their lower forms
\* in and outside ASCII)
Chunks ==
    {Prefixes[1], Prefixes[2], <<"/">>, <<"\\">>, <<"?">>, <<"a">>, <<"A">>, <<"Z">>,
     <<"É">>}
RawPaths == {Flatten(c) : c \in SeqsUpTo(Chunks, MaxChunks)}

InitNorm ==
    /\ ProgramIdle
    /\ call \in {[fn |-> "normalize_cwd", step |-> 0, raw |-> p, out |-> <<>>,
                  again |-> <<>>] : p \in RawPaths}

\* normalize_cwd(raw)
NormalizeOnce ==
    /\ call.fn = "normalize_cwd" /\ call.step = 0
    /\ call' = [call EXCEPT !.step = 1, !.out = normalize_cwd(call.raw)]
    /\ UNCHANGED ProgramVars

\* normalize_cwd of the result
NormalizeAgain ==
    /\ call.fn = "normalize_cwd" /\ call.step = 1
    /\ call' = [call EXCEPT !.step = 2, !.again = normalize_cwd(call.out)]
    /\ UNCHANGED ProgramVars

NextNorm == NormalizeOnce \/ NormalizeAgain

SpecNorm == InitNorm /\ [][NextNorm]_vars

\* Lines of a backup given to the scanner: cwd "/", "\a", "/b", "" and none
ScanLines ==
    {SessionMeta(Some(<<"/">>), Some("OLD")), SessionMeta(Some(CwdBackup), Some("OLD")),
     SessionMeta(None, Some("OLD")), TurnContext(Some(CwdOther)), TurnContext(Some(<<>>)),
     Event(1, 0), Garbage}
\* Normalized target paths: of "/" (the empty string) and of "/A/"
ScanTargets == {normalize_cwd(<<"/">>), normalize_cwd(CwdTarget)}

InitScan ==
    /\ ProgramIdle
    /\ call \in {[fn |-> "collect_cwd_filtered_lines", step |-> 0, src |-> b,
                  target |-> t, raised |-> FALSE, out |-> <<>>] :
                    b \in SeqsUpTo(ScanLines, MaxScanLen), t \in ScanTargets}

\* collect_cwd_filtered_lines(src_path, target_cwd_norm)
CollectCall ==
    /\ call.fn = "collect_cwd_filtered_lines" /\ call.step = 0
    /\ LET r == collect_cwd_filtered_lines(call.src, call.target) IN
       call' = [call EXCEPT !.step = 1, !.raised = r.raised, !.out = r.lines]
    /\ UNCHANGED ProgramVars

NextScan == CollectCall

SpecScan == InitScan /\ [][NextScan]_vars

\* Records given to update_cwd_and_id: every shape of payload and payload.meta
UpdateObjs ==
    {NonObj} \cup
    {o \in {Line("obj", ty, ps, pc_, ms, mc, mi, tx, od) :
              ty \in {"session_meta", "turn_context", "event"},
              ps \in {"absent", "map", "scalar"},
              pc_ \in {None, Some(CwdOther)},
              ms \in {"absent", "map", "scalar"},
              mc \in {None, Some(CwdBackup)},
              mi \in {None, Some("OLD")},
              tx \in {0, 1}, od \in {0, 1}} :
        /\ o.pshape # "map" => o.pcwd = None /\ o.mshape = "absent"
        /\ o.mshape # "map" => o.mcwd = None /\ o.mid = None}

InitUpdate ==
    /\ ProgramIdle
    /\ call \in {[fn |-> "update_cwd_and_id", step |-> 0, obj |-> o, new_cwd |-> c,
                  new_cid |-> "T1", raised |-> FALSE, out |-> o] :
                    o \in UpdateObjs, c \in {CwdTarget, <<"/">>}}

\* update_cwd_and_id(obj, new_cwd, new_cid): obj is changed in place and
\* returned, or the call raises and obj is as it was
UpdateCall ==
    /\ call.fn = "update_cwd_and_id" /\ call.step = 0
    /\ call' = IF UpdateRaises(call.obj)
               THEN [call EXCEPT !.step = 1, !.raised = TRUE]
               ELSE [call EXCEPT !.step = 1,
                        !.out = update_cwd_and_id(call.obj, call.new_cwd, call.new_cid)]
    /\ UNCHANGED ProgramVars

NextUpdate == UpdateCall

SpecUpdate == InitUpdate /\ [][NextUpdate]_vars

-----------------------------------------------------------------------------
(* The claims *)

Files == 1..Len(files)
Returned(i) == outcome[i] \notin {"Pending", "Raised"}

\* C1: under an existing root, whatever the files hold, the batch is never
\* aborted: when the process has exited, every enumerated file was processed,
\* the summary was printed and the exit code is zero.
BatchNeverAborts ==
    (pc = "exit" /\ root_exists) =>
        /\ exit_code = 0
        /\ printed
        /\ total = Len(files)
        /\ \A i \in Files : Returned(i)

RECURSIVE FirstSessionMeta(_)
\* The identity block of the first session_meta record of the lines, every
\* other line skipped
FirstSessionMeta(lines) ==
    IF lines = <<>> THEN [cwd |-> None, cid |-> None]
    ELSE IF Head(lines).kind = "obj" /\ Head(lines).type = "session_meta"
    THEN [cwd |-> Head(lines).mcwd, cid |-> Head(lines).mid]
    ELSE FirstSessionMeta(Tail(lines))

\* Every line of the file is blank, unparseable or a record
OnlyRecordsAndUnparseable(lines) ==
    \A k \in 1..Len(lines) : lines[k].kind # "nonobj"

\* C2: the identity extractor skips unparseable lines and returns the cwd and
\* id of the first session_meta record: while process_jsonl holds an identity
\* it is that record's, and a file that ended in NoIdentity has no
\* session_meta record with a cwd and an id.
ExtractorSkipsUnparseable ==
    \A i \in Files :
        OnlyRecordsAndUnparseable(orig[i].jsonl) =>
            LET first == FirstSessionMeta(orig[i].jsonl) IN
            /\ (i = idx /\ pc \in {"timestamp", "glob", "scan"}) =>
                   (target_cwd_raw = first.cwd /\ target_cid = first.cid)
            /\ outcome[i] = "NoIdentity" =>
                   ~(TruthyPath(first.cwd) /\ TruthyId(first.cid))

\* The record declares a cwd (it is a session_meta or turn_context record with one)
DeclaresCwd(obj) == obj.kind = "obj" /\ NewCwd(obj) # None

RECURSIVE ContextFilter(_, _, _)
\* The parseable records read while the active context equals the target: the
\* context starts absent, every record that declares a cwd sets it to
\* normalize(cwd) before it is itself tested, every other record inherits it
ContextFilter(rest, active, target) ==
    IF rest = <<>> THEN <<>>
    ELSE LET obj == Head(rest)
             now == IF DeclaresCwd(obj) THEN Some(normalize_cwd(NewCwd(obj)[1]))
                    ELSE active
         IN  IF ~Parses(obj) THEN ContextFilter(Tail(rest), active, target)
             ELSE IF now = Some(target)
             THEN <<obj>> \o ContextFilter(Tail(rest), now, target)
             ELSE ContextFilter(Tail(rest), now, target)

\* C3: for every backup and every normalized target path, the empty one
\* included, the scanner returns exactly, in file order, the parseable records
\* read while the active context equals the target path.
ScannerReturnsContextMatches ==
    (call.fn = "collect_cwd_filtered_lines" /\ call.step = 1 /\ ~call.raised) =>
        call.out = ContextFilter(call.src, None, call.target)

\* C4: normalize(normalize(p)) = normalize(p) for every path string p,
\* strings that begin with a repeated prefix marker included.
NormalizeIdempotent ==
    (call.fn = "normalize_cwd" /\ call.step = 2) => call.again = call.out

\* The identity the extractor finds in a file is present
HasIdentity(f) ==
    LET id == extract_cwd_and_id_from_jsonl(f.jsonl) IN
    TruthyPath(id.cwd) /\ TruthyId(id.cid)

\* What the scanner makes of the backup chosen for f
Scanned(f) ==
    collect_cwd_filtered_lines(
        f.baks[ChooseCandidate(f)].lines,
        normalize_cwd(extract_cwd_and_id_from_jsonl(f.jsonl).cwd[1]))

\* The string s ends with p
EndsWith(s, p) == Len(s) >= Len(p) /\ SubSeq(s, Len(s) - Len(p) + 1, Len(s)) = p

\* The backups of f's directory that share the timestamp prefix of f's name:
\* those named "rollout-", the prefix, "-", anything, ".mixed.bak"
SharingBackups(f) ==
    LET head == Rollout \o ts_prefix_from_name(f.name)[1] \o <<"-">> IN
    {i \in 1..Len(f.baks) :
        /\ Len(f.baks[i].name) >= Len(head) + Len(BakExt)
        /\ StartsWith(f.baks[i].name, head)
        /\ EndsWith(f.baks[i].name, BakExt)}

\* The records the scanner returns for the longest-named of those backups (the
\* first of them in directory order)
SharedScan(f) ==
    LET c == SharingBackups(f)
        longest == {i \in c : \A j \in c : Len(f.baks[j].name) <= Len(f.baks[i].name)}
        first == CHOOSE i \in longest : \A j \in longest : i <= j
    IN  collect_cwd_filtered_lines(
            f.baks[first].lines,
            normalize_cwd(extract_cwd_and_id_from_jsonl(f.jsonl).cwd[1])).lines

\* The state the first failing check gives, in the order identity, timestamp
\* prefix, candidate backup, matching records; Repaired when none fails
FirstFailingCheck(f) ==
    IF ~HasIdentity(f) THEN "NoIdentity"
    ELSE IF ts_prefix_from_name(f.name) = None THEN "NoTimestamp"
    ELSE IF SharingBackups(f) = {} THEN "NoCandidate"
    ELSE IF Len(SharedScan(f)) = 0 THEN "NoMatchingRecords"
    ELSE "Repaired"

\* C5: process_jsonl ends in the state of the first failing check, taken in the
\* order identity, timestamp prefix, candidate backup, matching records; it
\* reports Repaired exactly when the identity is present, the name yields a
\* timestamp prefix, a backup shares that prefix and the scanner returns a
\* record; main counts exactly the Repaired files as repaired; and the state
\* is the same with and without dry-run.
ChecksInOrder ==
    /\ \A i \in Files : Returned(i) => outcome[i] = FirstFailingCheck(orig[i])
    /\ \A i \in Files :
           (outcome[i] # "Pending" /\ FirstFailingCheck(orig[i]) = "Repaired")
               => outcome[i] = "Repaired"
    /\ repaired = Cardinality({i \in Files : outcome[i] = "Repaired"})
    /\ \A i \in Files :
           (/\ prev # <<>>
            /\ prev[1].dry_run # dry_run
            /\ prev[1].orig[i] = orig[i]
            /\ prev[1].outcome[i] # "Pending"
            /\ outcome[i] # "Pending") => outcome[i] = prev[1].outcome[i]

\* C6: within an invocation the target's contents differ from what they were
\* only for a file that ended in Repaired with dry-run off; in every failure
\* state and in every dry-run the target is as it was; names and backups are
\* never changed.
TargetOnlyChangedByRepair ==
    /\ Len(files) = Len(orig)
    /\ \A i \in Files :
           /\ files[i].name = orig[i].name
           /\ files[i].baks = orig[i].baks
           /\ files[i].jsonl # orig[i].jsonl => (~dry_run /\ outcome[i] = "Repaired")

\* The rehydrated matching backup records of f, in backup order
RehydratedSource(f) ==
    LET id == extract_cwd_and_id_from_jsonl(f.jsonl) IN
    Rehydrate(Scanned(f).lines, id.cwd[1], id.cid[1])

\* s[k] is the first record of s with its canonical serialization
IsFirstOccurrence(s, k) ==
    \A j \in 1..(k - 1) : CanonicalKey(s[j]) # CanonicalKey(s[k])

RECURSIVE FirstOccurrencesFrom(_, _)
FirstOccurrencesFrom(s, k) ==
    IF k > Len(s) THEN <<>>
    ELSE (IF IsFirstOccurrence(s, k) THEN <<s[k]>> ELSE <<>>)
         \o FirstOccurrencesFrom(s, k + 1)

\* The first-occurrence deduplication of s
FirstOccurrences(s) == FirstOccurrencesFrom(s, 1)

\* C7: on a successful repair the records written to the target are the
\* first-occurrence deduplication of the rehydrated matching backup records (in
\* backup order) followed by the target's parseable records (in file order);
\* no two written records have the same canonical serialization.
WrittenIsFirstOccurrenceMerge ==
    \A i \in Files :
        (outcome[i] = "Repaired" /\ ~dry_run) =>
            /\ files[i].jsonl =
                   FirstOccurrences(RehydratedSource(orig[i]) \o Existing(orig[i].jsonl))
            /\ \A a, b \in 1..Len(files[i].jsonl) :
                   a # b => CanonicalKey(files[i].jsonl[a]) # CanonicalKey(files[i].jsonl[b])

\* A repair that dropped a repeat: a target record written with its keys in
\* another order than the backup's copy of it
DedupWitness ==
    \E i \in Files :
        /\ outcome[i] = "Repaired" /\ ~dry_run
        /\ \E k \in 1..Len(orig[i].jsonl) :
               /\ Parses(orig[i].jsonl[k])
               /\ \A m \in 1..Len(files[i].jsonl) : files[i].jsonl[m] # orig[i].jsonl[k]
        /\ Len(files[i].jsonl) >= 3

\* C8: update_cwd_and_id alters only identity-bearing fields: payload.meta.cwd
\* and payload.meta.id of a session_meta record, payload.cwd of a turn_context
\* record, nothing of any other record (the mappings that hold those fields
\* are created where they are missing); a call that raises alters nothing.
RehydrationFrame ==
    (call.fn = "update_cwd_and_id" /\ call.step = 1) =>
        LET obj == call.obj
            out == call.out
        IN  IF call.raised THEN out = obj
            ELSE IF obj.type = "session_meta"
            THEN /\ out = [obj EXCEPT !.pshape = out.pshape, !.mshape = out.mshape,
                                      !.mcwd = out.mcwd, !.mid = out.mid]
                 /\ out.mcwd = Some(call.new_cwd) /\ out.mid = Some(call.new_cid)
                 /\ out.pshape = "map" /\ out.mshape = "map"
            ELSE IF obj.type = "turn_context"
            THEN /\ out = [obj EXCEPT !.pshape = out.pshape, !.pcwd = out.pcwd]
                 /\ out.pcwd = Some(call.new_cwd)
                 /\ out.pshape = "map"
            ELSE out = obj

\* A session_meta record with other fields and another identity was rehydrated
RehydrationWitness ==
    /\ call.fn = "update_cwd_and_id" /\ call.step = 1 /\ ~call.raised
    /\ call.obj.type = "session_meta" /\ call.obj.mid = Some("OLD")
    /\ call.obj.text = 1 /\ call.obj.pcwd # None
    /\ call.out # call.obj

\* C9: a file that the previous invocation repaired (dry-run off) is repaired
\* again by this one, from the same identity, and its records stay exactly as
\* the previous invocation wrote them.
RepairIdempotent ==
    \A i \in Files :
        (prev # <<>> /\ ~prev[1].dry_run /\ prev[1].outcome[i] = "Repaired") =>
            LET before == extract_cwd_and_id_from_jsonl(prev[1].orig[i].jsonl)
                after == extract_cwd_and_id_from_jsonl(prev[1].files[i].jsonl)
            IN  /\ after.cwd = before.cwd /\ after.cid = before.cid
                /\ files[i].jsonl = prev[1].files[i].jsonl
                /\ outcome[i] # "Pending" => outcome[i] = "Repaired"

\* The second invocation, dry-run off, has rewritten a file that the first
\* one had changed
SecondRepairWitness ==
    \E i \in Files :
        /\ prev # <<>> /\ ~prev[1].dry_run /\ prev[1].outcome[i] = "Repaired"
        /\ prev[1].files[i].jsonl # prev[1].orig[i].jsonl
        /\ ~dry_run /\ outcome[i] = "Repaired"

\* The records of s whose canonical serialization is none of those of drop
RECURSIVE Without(_, _)
Without(s, drop) ==
    IF s = <<>> THEN <<>>
    ELSE (IF \E k \in 1..Len(drop) : CanonicalKey(drop[k]) = CanonicalKey(Head(s))
          THEN <<>> ELSE <<Head(s)>>)
         \o Without(Tail(s), drop)

\* C10: a successful repair loses no pre-existing record: every parseable
\* record of the target is (by canonical serialization) among the written
\* ones, and the pre-existing records equal to no rehydrated backup record are
\* written in their original order (each at its first occurrence).
NoRecordLost ==
    \A i \in Files :
        (outcome[i] = "Repaired" /\ ~dry_run) =>
            LET old == Existing(orig[i].jsonl)
                new == files[i].jsonl
                src == RehydratedSource(orig[i])
            IN  /\ \A k \in 1..Len(old) :
                       \E m \in 1..Len(new) : CanonicalKey(new[m]) = CanonicalKey(old[k])
                /\ Without(new, src) = FirstOccurrences(Without(old, src))

\* A repair that added backup records to a target holding a record the backup
\* does not hold
KeptRecordsWitness ==
    \E i \in Files :
        /\ outcome[i] = "Repaired" /\ ~dry_run
        /\ Len(Without(Existing(orig[i].jsonl), RehydratedSource(orig[i]))) >= 1
        /\ Len(Without(RehydratedSource(orig[i]), Existing(orig[i].jsonl))) >= 1
        /\ Len(files[i].jsonl) > Len(orig[i].jsonl)

====
